---------------------------- MODULE Spec2Model ----------------------------
(***************************************************************************)
(* Genetic-algorithm timetable search (package main, latest variant        *)
(* src/unnamed/part_001).                                                   *)
(*                                                                         *)
(* A Gene holds a POINTER to a Class object (Gene.ClassAssignment *Class). *)
(* The model therefore keeps a heap of Class objects and represents a      *)
(* Chromosome as the sequence of the object ids its genes point to:        *)
(* copying a Gene (crossover, selection, the best-record commit) copies    *)
(* the pointer, and mutate writes through it.                               *)
(***************************************************************************)
EXTENDS Integers, Sequences, FiniteSets, TLC

VARIABLES
    teachers,       \* []*Teacher catalog of the run
    rooms,          \* []*Room catalog of the run
    timeSlots,      \* []*TimeSlot catalog of the run
    classes,        \* []*Class templates of the run
    populationSize, tournamentSize, mutationRate, numGenerations,
    heap,           \* the Class objects allocated by initializeRandomTimetable
    population,     \* population.Timetables: sequence of chromosomes
    newGeneration,  \* CreateNewGeneration: newGeneration.Timetables
    i,              \* CreateNewGeneration: loop counter
    parent1, parent2, child1, child2,   \* CreateNewGeneration: locals
    generation,     \* main: generation loop counter
    idx,            \* main: position of the range loop over the new generation
    bestFitnessInGeneration,
    bestFitnessAllGenerations,
    bestTimetable,  \* BestTimetable{Timetable, FitnessScore}
    sync,           \* BestTimetable.sync: the mutex of the record
    evaluatedMax,   \* history: highest value calculateFitness returned so far
    output,         \* what line 437 printed ("Fitness Score:")
    pc

vars == <<teachers, rooms, timeSlots, classes, populationSize, tournamentSize,
          mutationRate, numGenerations, heap, population, newGeneration, i,
          parent1, parent2, child1, child2, generation, idx,
          bestFitnessInGeneration, bestFitnessAllGenerations, bestTimetable,
          sync, evaluatedMax, output, pc>>

---------------------------------------------------------------------------
(* Bounds of the model *)

\* largest population size tried
MaxPopulation == 3
\* largest tournament size tried
MaxTournament == 2
\* largest generation budget tried
MaxGenerations == 2
\* most Class objects one run may allocate (populationSize * len(classes))
MaxObjects == 4
\* mutationRate and rand.Float64() are counted in units of 1/RateUnits
RateUnits == 2

(* Program constants *)

TeacherConflictPenalty == 20
RoomConflictPenalty == 20
LowestFitness == -100000000
TournamentFloor == -1000

Monday == 1
Tuesday == 2

---------------------------------------------------------------------------
(* The catalogs the runs draw from: every run uses a non-empty prefix of   *)
(* each of these lists.  Times are minutes after midnight.                 *)

AllTeachers ==
    << [ID |-> "T1", Subjects |-> <<"Mathematics", "History">>, Available |-> <<Monday>>],
       [ID |-> "T2", Subjects |-> <<"History">>, Available |-> <<Monday, Tuesday>>] >>

AllRooms ==
    << [ID |-> "R101", Capacity |-> 30],
       [ID |-> "R102", Capacity |-> 20] >>

AllTimeSlots ==
    << [Day |-> Monday, Start |-> 480, End |-> 600],
       [Day |-> Monday, Start |-> 600, End |-> 720],
       [Day |-> Monday, Start |-> 540, End |-> 660],
       [Day |-> Tuesday, Start |-> 480, End |-> 600] >>

AllClasses ==
    << [Subject |-> "Mathematics", Capacity |-> 25],
       [Subject |-> "History", Capacity |-> 25],
       [Subject |-> "History", Capacity |-> 20] >>

\* the first nT teachers, nR rooms, nS time slots and nC classes
Catalog(nT, nR, nS, nC) ==
    << SubSeq(AllTeachers, 1, nT), SubSeq(AllRooms, 1, nR),
       SubSeq(AllTimeSlots, 1, nS), SubSeq(AllClasses, 1, nC) >>

\* the catalogs of the driver runs: (teachers, rooms, timeSlots, classes)
\*   one of each, where the only assignment is valid;
\*   two classes that must share the only teacher, room and time slot;
\*   two classes and two adjacent time slots, where a valid timetable exists;
\*   two classes and two teachers, one of them not qualified for the first class
DriverCatalogs ==
    { Catalog(1, 1, 1, 1), Catalog(1, 1, 1, 2), Catalog(1, 1, 2, 2), Catalog(2, 1, 1, 2) }

---------------------------------------------------------------------------
(* Supporting predicates *)

\* mutant: a slot that starts when the other ends overlaps it
timeSlotsOverlap_Closed(slot1, slot2) ==
    slot1.Day = slot2.Day /\ slot1.Start <= slot2.End /\ slot2.Start <= slot1.End

\* lines 41-43; Start and End are instants of the same date, counted in
\* minutes after midnight, and Before is <
timeSlotsOverlap(slot1, slot2) ==
    slot1.Day = slot2.Day /\ slot1.Start < slot2.End /\ slot2.Start < slot1.End

\* mutant: the slot's weekday is compared with the day before
checkTeacherAvailability_DayBefore(teacher, timeSlot) ==
    \E k \in DOMAIN teacher.Available : teacher.Available[k] + 1 = timeSlot.Day

checkTeacherAvailability(teacher, timeSlot) ==
    \E k \in DOMAIN teacher.Available : teacher.Available[k] = timeSlot.Day

checkRoomCapacity(class, room) == class.Capacity <= room.Capacity

checkTeacherQualification(teacher, subject) ==
    \E k \in DOMAIN teacher.Subjects : teacher.Subjects[k] = subject

\* the Class objects a chromosome's genes point to, under heap h
Genes(chromosome, h) == [k \in DOMAIN chromosome |-> h[chromosome[k]]]

Max(a, b) == IF a >= b THEN a ELSE b

---------------------------------------------------------------------------
(* calculateFitness: genes is the sequence of Class objects of a chromosome; *)
(* Teacher, Room and TimeSlot are indexes into the catalogs (the pointers).  *)

\* mutant: a shared room is not penalised
PairPenalty_TeacherOnly(gene1, gene2) ==
    IF timeSlotsOverlap(timeSlots[gene1.TimeSlot], timeSlots[gene2.TimeSlot])
       /\ teachers[gene1.Teacher].ID = teachers[gene2.Teacher].ID
    THEN TeacherConflictPenalty ELSE 0

\* lines 127-134
PairPenalty(gene1, gene2) ==
    IF timeSlotsOverlap(timeSlots[gene1.TimeSlot], timeSlots[gene2.TimeSlot])
    THEN (IF teachers[gene1.Teacher].ID = teachers[gene2.Teacher].ID
             THEN TeacherConflictPenalty ELSE 0)
         + (IF rooms[gene1.Room].ID = rooms[gene2.Room].ID
               THEN RoomConflictPenalty ELSE 0)
    ELSE 0

\* mutant: a per-gene defect adds a point instead of costing one
GenePenalty_Added(gene1) ==
    0 - (  (IF ~checkTeacherQualification(teachers[gene1.Teacher], gene1.Subject) THEN 1 ELSE 0)
         + (IF ~checkRoomCapacity(gene1, rooms[gene1.Room]) THEN 1 ELSE 0)
         + (IF ~checkTeacherAvailability(teachers[gene1.Teacher], timeSlots[gene1.TimeSlot])
               THEN 1 ELSE 0))

\* lines 138-148
GenePenalty(gene1) ==
      (IF ~checkTeacherQualification(teachers[gene1.Teacher], gene1.Subject) THEN 1 ELSE 0)
    + (IF ~checkRoomCapacity(gene1, rooms[gene1.Room]) THEN 1 ELSE 0)
    + (IF ~checkTeacherAvailability(teachers[gene1.Teacher], timeSlots[gene1.TimeSlot])
          THEN 1 ELSE 0)

\* mutant: a gene is compared with itself too
ComparePair_WithItself(a, b) == TRUE

\* line 126: if i != j
ComparePair(a, b) == a # b

RECURSIVE InnerLoop(_, _, _, _)
InnerLoop(genes, a, b, fitness) ==
    IF b > Len(genes) THEN fitness
    ELSE InnerLoop(genes, a, b + 1,
                   IF ComparePair(a, b) THEN fitness - PairPenalty(genes[a], genes[b])
                   ELSE fitness)

RECURSIVE OuterLoop(_, _, _)
OuterLoop(genes, a, fitness) ==
    IF a > Len(genes) THEN fitness
    ELSE OuterLoop(genes, a + 1, InnerLoop(genes, a, 1, fitness) - GenePenalty(genes[a]))

calculateFitness(genes) == OuterLoop(genes, 1, 0)

Fitness(chromosome, h) == calculateFitness(Genes(chromosome, h))

(* calculateFitness of the variant src/main.go: the same scan, with its own *)
(* penalties for a shared teacher and a shared room.                        *)

MainGoTeacherConflictPenalty == 10
MainGoRoomConflictPenalty == 1

PairPenaltyMainGo(gene1, gene2) ==
    IF timeSlotsOverlap(timeSlots[gene1.TimeSlot], timeSlots[gene2.TimeSlot])
    THEN (IF teachers[gene1.Teacher].ID = teachers[gene2.Teacher].ID
             THEN MainGoTeacherConflictPenalty ELSE 0)
         + (IF rooms[gene1.Room].ID = rooms[gene2.Room].ID
               THEN MainGoRoomConflictPenalty ELSE 0)
    ELSE 0

RECURSIVE InnerLoopMainGo(_, _, _, _)
InnerLoopMainGo(genes, a, b, fitness) ==
    IF b > Len(genes) THEN fitness
    ELSE InnerLoopMainGo(genes, a, b + 1,
                         IF a # b THEN fitness - PairPenaltyMainGo(genes[a], genes[b])
                         ELSE fitness)

RECURSIVE OuterLoopMainGo(_, _, _)
OuterLoopMainGo(genes, a, fitness) ==
    IF a > Len(genes) THEN fitness
    ELSE OuterLoopMainGo(genes, a + 1,
                         InnerLoopMainGo(genes, a, 1, fitness) - GenePenalty(genes[a]))

calculateFitnessMainGo(genes) == OuterLoopMainGo(genes, 1, 0)

---------------------------------------------------------------------------
(* TournamentSelection: draws is the sequence of rand.Intn(len(population)) *)
(* results (0-based), one per round; the result is the winning index.       *)

\* mutant: the first draw has to beat the initial bestFitness like any other
Replaces_AboveFloor(best, currentFitness, bestFitness) == currentFitness > bestFitness

\* line 162
Replaces(best, currentFitness, bestFitness) == best = -1 \/ currentFitness > bestFitness

RECURSIVE TournamentLoop(_, _, _, _, _, _)
TournamentLoop(pop, h, draws, k, best, bestFitness) ==
    IF k > Len(draws) THEN best
    ELSE LET individualIndex == draws[k]
             currentFitness == Fitness(pop[individualIndex + 1], h)
         IN  IF Replaces(best, currentFitness, bestFitness)
             THEN TournamentLoop(pop, h, draws, k + 1, individualIndex, currentFitness)
             ELSE TournamentLoop(pop, h, draws, k + 1, best, bestFitness)

TournamentSelection(pop, h, draws) == TournamentLoop(pop, h, draws, 1, -1, TournamentFloor)

\* the tournaments of tournamentSize rounds over a population of n members
TournamentDraws(n) == [1..tournamentSize -> 0..(n - 1)]

\* highest fitness among the individuals a tournament evaluated
DrawnMax(pop, h, draws, m) ==
    LET f[k \in 0..Len(draws)] ==
            IF k = 0 THEN m ELSE Max(f[k - 1], Fitness(pop[draws[k] + 1], h))
    IN  f[Len(draws)]

---------------------------------------------------------------------------
(* crossover: crossoverPoint is the rand.Intn(len(parent1.Genes)) result.   *)
(* The child's genes are copies of the parents' Gene values, that is, of    *)
(* the pointers.                                                            *)

\* mutant: the gene at the cut comes from the first parent
TakesFromFirst_Inclusive(pos, crossoverPoint) == pos <= crossoverPoint

\* line 200: if i < crossoverPoint
TakesFromFirst(pos, crossoverPoint) == pos < crossoverPoint

RECURSIVE CrossoverLoop(_, _, _, _, _)
CrossoverLoop(p1, p2, crossoverPoint, pos, childGenes) ==
    IF ~(pos < Len(p1)) THEN childGenes
    ELSE CrossoverLoop(p1, p2, crossoverPoint, pos + 1,
                       IF TakesFromFirst(pos, crossoverPoint)
                       THEN Append(childGenes, p1[pos + 1])
                       ELSE Append(childGenes, p2[pos + 1]))

crossover(p1, p2, crossoverPoint) == CrossoverLoop(p1, p2, crossoverPoint, 0, <<>>)

CrossoverPoints(p1) == 0..(Len(p1) - 1)

---------------------------------------------------------------------------
(* mutate: draws[k] holds what the random generator returned for gene k:    *)
(* roll is rand.Float64() in units of 1/RateUnits, and, when the gene is    *)
(* mutated, mutationChoice is rand.Intn(3) and pick the rand.Intn over the  *)
(* catalog.  The writes go through the gene's pointer into the heap.        *)

Rolls == 0..(RateUnits - 1)

\* mutant: a roll equal to the rate mutates the gene too
Fires_AtOrBelow(roll) == roll <= mutationRate

\* line 213: if rand.Float64() < mutationRate
Fires(roll) == roll < mutationRate

CatalogSize(mutationChoice) ==
    CASE mutationChoice = 0 -> Len(teachers)
      [] mutationChoice = 1 -> Len(rooms)
      [] OTHER -> Len(timeSlots)

GeneDraws ==
    { [roll |-> r, mutationChoice |-> -1, pick |-> -1] : r \in { x \in Rolls : ~Fires(x) } }
    \cup
    UNION { { [roll |-> r, mutationChoice |-> c, pick |-> p] :
                r \in { x \in Rolls : Fires(x) }, p \in 0..(CatalogSize(c) - 1) }
            : c \in 0..2 }

MutationDraws(chromosome) == [DOMAIN chromosome -> GeneDraws]

\* mutant: case 0 falls through into case 1
MutateGene_Fallthrough(class, d) ==
    IF Fires(d.roll)
    THEN CASE d.mutationChoice = 0 ->
                [class EXCEPT !.Teacher = d.pick + 1, !.Room = (d.pick % Len(rooms)) + 1]
           [] d.mutationChoice = 1 -> [class EXCEPT !.Room = d.pick + 1]
           [] d.mutationChoice = 2 -> [class EXCEPT !.TimeSlot = d.pick + 1]
           [] OTHER -> class
    ELSE class

\* lines 213-224
MutateGene(class, d) ==
    IF Fires(d.roll)
    THEN CASE d.mutationChoice = 0 -> [class EXCEPT !.Teacher = d.pick + 1]
           [] d.mutationChoice = 1 -> [class EXCEPT !.Room = d.pick + 1]
           [] d.mutationChoice = 2 -> [class EXCEPT !.TimeSlot = d.pick + 1]
           [] OTHER -> class
    ELSE class

RECURSIVE MutateLoop(_, _, _, _)
MutateLoop(chromosome, draws, k, h) ==
    IF k > Len(chromosome) THEN h
    ELSE MutateLoop(chromosome, draws, k + 1,
                    [h EXCEPT ![chromosome[k]] = MutateGene(h[chromosome[k]], draws[k])])

\* mutant: a mutated gene gets a new Class without the capacity
mutate_DropsCapacity(chromosome, draws, h) ==
    LET m == MutateLoop(chromosome, draws, 1, h)
    IN  [o \in DOMAIN m |-> IF m[o] # h[o] THEN [m[o] EXCEPT !.Capacity = 0] ELSE m[o]]

\* the heap after mutate(chromosome, ...); the returned chromosome is the
\* argument itself (same gene pointers)
mutate(chromosome, draws, h) == MutateLoop(chromosome, draws, 1, h)

---------------------------------------------------------------------------
(* main *)

NoChromosome == <<>>

Init ==
    /\ \E c \in DriverCatalogs :
          /\ teachers = c[1]
          /\ rooms = c[2]
          /\ timeSlots = c[3]
          /\ classes = c[4]
    /\ populationSize \in 1..MaxPopulation
    /\ populationSize * Len(classes) <= MaxObjects
    /\ tournamentSize \in {1, MaxTournament}
    /\ mutationRate \in {0, 1, RateUnits}
    /\ numGenerations \in {0, 1, MaxGenerations}
    /\ heap = <<>>
    /\ population = <<>>
    /\ newGeneration = <<>>
    /\ i = 0
    /\ parent1 = NoChromosome
    /\ parent2 = NoChromosome
    /\ child1 = NoChromosome
    /\ child2 = NoChromosome
    /\ generation = 0
    /\ idx = 0
    /\ bestFitnessInGeneration = LowestFitness
    /\ bestFitnessAllGenerations = LowestFitness
    /\ bestTimetable = [Timetable |-> NoChromosome, FitnessScore |-> 0]
    /\ sync = "unlocked"
    /\ evaluatedMax = LowestFitness
    /\ output = "none"
    /\ pc = "seed"

\* mutant: the capacity of the class is not copied
NewClass_NoCapacity(class, t, r, s) ==
    [Subject |-> class.Subject, Teacher |-> t, Room |-> r, TimeSlot |-> s, Capacity |-> 0]

\* the Class object initializeRandomTimetable allocates for a class template
NewClass(class, t, r, s) ==
    [Subject |-> class.Subject, Teacher |-> t, Room |-> r, TimeSlot |-> s,
     Capacity |-> class.Capacity]

\* lines 374-379: the population is seeded with populationSize random
\* timetables; timetable c's gene for class k is the fresh object (c-1)*K + k
SeedPopulation ==
    /\ pc = "seed"
    /\ LET K == Len(classes)
           N == populationSize
       IN  /\ \E a \in [1..(N * K) -> (1..Len(teachers)) \X (1..Len(rooms)) \X (1..Len(timeSlots))] :
                 heap' = [o \in 1..(N * K) |->
                            NewClass(classes[((o - 1) % K) + 1], a[o][1], a[o][2], a[o][3])]
           /\ population' = [c \in 1..N |-> [k \in 1..K |-> (c - 1) * K + k]]
    /\ pc' = "evalseed"
    /\ UNCHANGED <<sync, teachers, rooms, timeSlots, classes, populationSize, tournamentSize,
                   mutationRate, numGenerations, newGeneration, i, parent1, parent2,
                   child1, child2, generation, idx, bestFitnessInGeneration,
                   bestFitnessAllGenerations, bestTimetable, evaluatedMax, output>>

\* highest fitness over a whole population
PopulationMax(pop, h, m) ==
    LET f[k \in 0..Len(pop)] == IF k = 0 THEN m ELSE Max(f[k - 1], Fitness(pop[k], h))
    IN  f[Len(pop)]

\* lines 381-403: the fitness of every seeded timetable is computed (and only
\* printed), the best-ever score starts at its floor, the loop is entered
EvaluateSeed ==
    /\ pc = "evalseed"
    /\ evaluatedMax' = PopulationMax(population, heap, evaluatedMax)
    /\ bestFitnessAllGenerations' = LowestFitness
    /\ generation' = 0
    /\ pc' = IF 0 < numGenerations THEN "select" ELSE "report"
    /\ i' = 0
    /\ newGeneration' = <<>>
    /\ UNCHANGED <<sync, teachers, rooms, timeSlots, classes, populationSize, tournamentSize,
                   mutationRate, numGenerations, heap, population, parent1, parent2,
                   child1, child2, idx, bestFitnessInGeneration, bestTimetable, output>>

\* what one call of TournamentSelection can return: the winning index and the
\* highest fitness it computed on the way, for every sequence of draws
TournamentOutcomes(pop, h) ==
    { [winner |-> TournamentSelection(pop, h, d), seen |-> DrawnMax(pop, h, d, LowestFitness)] :
        d \in TournamentDraws(Len(pop)) }

\* lines 175-176: two tournaments pick the parents
SelectParents ==
    /\ pc = "select"
    /\ \E t1 \in TournamentOutcomes(population, heap), t2 \in TournamentOutcomes(population, heap) :
          /\ parent1' = population[t1.winner + 1]
          /\ parent2' = population[t2.winner + 1]
          /\ evaluatedMax' = Max(evaluatedMax, Max(t1.seen, t2.seen))
    /\ pc' = "crossover"
    /\ UNCHANGED <<sync, teachers, rooms, timeSlots, classes, populationSize, tournamentSize,
                   mutationRate, numGenerations, heap, population, newGeneration, i,
                   child1, child2, generation, idx, bestFitnessInGeneration,
                   bestFitnessAllGenerations, bestTimetable, output>>

\* lines 178-179: each child is made by its own call of crossover
Crossover ==
    /\ pc = "crossover"
    /\ \E c1 \in CrossoverPoints(parent1), c2 \in CrossoverPoints(parent2) :
          /\ child1' = crossover(parent1, parent2, c1)
          /\ child2' = crossover(parent2, parent1, c2)
    /\ pc' = "mutate1"
    /\ UNCHANGED <<sync, teachers, rooms, timeSlots, classes, populationSize, tournamentSize,
                   mutationRate, numGenerations, heap, population, newGeneration, i,
                   parent1, parent2, generation, idx, bestFitnessInGeneration,
                   bestFitnessAllGenerations, bestTimetable, evaluatedMax, output>>

\* line 182: mutatedChild1 := mutate(child1, ...)
MutateChild1 ==
    /\ pc = "mutate1"
    /\ \E d \in MutationDraws(child1) : heap' = mutate(child1, d, heap)
    /\ pc' = "mutate2"
    /\ UNCHANGED <<sync, teachers, rooms, timeSlots, classes, populationSize, tournamentSize,
                   mutationRate, numGenerations, population, newGeneration, i,
                   parent1, parent2, child1, child2, generation, idx,
                   bestFitnessInGeneration, bestFitnessAllGenerations, bestTimetable,
                   evaluatedMax, output>>

\* line 183: mutatedChild2 := mutate(child2, ...)
MutateChild2 ==
    /\ pc = "mutate2"
    /\ \E d \in MutationDraws(child2) : heap' = mutate(child2, d, heap)
    /\ pc' = "append"
    /\ UNCHANGED <<sync, teachers, rooms, timeSlots, classes, populationSize, tournamentSize,
                   mutationRate, numGenerations, population, newGeneration, i,
                   parent1, parent2, child1, child2, generation, idx,
                   bestFitnessInGeneration, bestFitnessAllGenerations, bestTimetable,
                   evaluatedMax, output>>

\* mutant: the second child is appended unconditionally
KeepsSecondChild_Always(timetables) == TRUE

\* line 186: if len(newGeneration.Timetables) < populationSize
KeepsSecondChild(timetables) == Len(timetables) < populationSize

\* lines 185-188
AppendedChildren(timetables, mutatedChild1, mutatedChild2) ==
    LET first == Append(timetables, mutatedChild1)
    IN  IF KeepsSecondChild(first) THEN Append(first, mutatedChild2) ELSE first

\* lines 185-191 and 405-408: the children are appended and the loop of
\* CreateNewGeneration goes on; when it ends the new generation replaces the
\* population and the evaluation of the generation starts
AppendChildren ==
    /\ pc = "append"
    /\ LET next == AppendedChildren(newGeneration, child1, child2)
       IN  IF i + 2 < populationSize
           THEN /\ newGeneration' = next
                /\ i' = i + 2
                /\ pc' = "select"
                /\ UNCHANGED <<population, idx, bestFitnessInGeneration>>
           ELSE /\ population' = next
                /\ newGeneration' = <<>>
                /\ i' = 0
                /\ idx' = 0
                /\ bestFitnessInGeneration' = LowestFitness
                /\ pc' = "scan"
    /\ parent1' = NoChromosome
    /\ parent2' = NoChromosome
    /\ child1' = NoChromosome
    /\ child2' = NoChromosome
    /\ UNCHANGED <<sync, teachers, rooms, timeSlots, classes, populationSize, tournamentSize,
                   mutationRate, numGenerations, heap, generation,
                   bestFitnessAllGenerations, bestTimetable, evaluatedMax, output>>

ImprovesGeneration(currentFitness) == currentFitness > bestFitnessInGeneration

\* mutant: an equal score commits too
ImprovesAllGenerations_OrEqual(currentFitness) == currentFitness >= bestFitnessAllGenerations

\* line 419
ImprovesAllGenerations(currentFitness) == currentFitness > bestFitnessAllGenerations

\* lines 411-431: one iteration of the range loop over the new generation
EvaluateIndividual ==
    /\ pc = "scan"
    /\ idx < Len(population)
    /\ LET timetable == population[idx + 1]
           currentFitness == Fitness(timetable, heap)
           commit == ImprovesGeneration(currentFitness) /\ ImprovesAllGenerations(currentFitness)
       IN  /\ evaluatedMax' = Max(evaluatedMax, currentFitness)
           /\ bestFitnessInGeneration' =
                 IF ImprovesGeneration(currentFitness) THEN currentFitness
                 ELSE bestFitnessInGeneration
           /\ bestFitnessAllGenerations' =
                 IF commit THEN currentFitness ELSE bestFitnessAllGenerations
           /\ bestTimetable' =
                 IF commit THEN [Timetable |-> timetable, FitnessScore |-> currentFitness]
                 ELSE bestTimetable
           /\ IF commit /\ currentFitness = 0
              THEN /\ pc' = "check"
                   /\ idx' = idx
              ELSE /\ idx' = idx + 1
                   /\ pc' = IF idx + 1 < Len(population) THEN "scan" ELSE "check"
    /\ UNCHANGED <<sync, teachers, rooms, timeSlots, classes, populationSize, tournamentSize,
                   mutationRate, numGenerations, heap, population, newGeneration, i,
                   parent1, parent2, child1, child2, generation, output>>

\* mutant: the generation loop does not look at the zero
StopsRun_Never == FALSE

\* line 432: if bestFitnessInGeneration == 0
StopsRun == bestFitnessInGeneration = 0

\* lines 432-435 and the loop header of line 403
EndGeneration ==
    /\ pc = "check"
    /\ IF StopsRun
       THEN /\ pc' = "report"
            /\ generation' = generation
       ELSE /\ generation' = generation + 1
            /\ pc' = IF generation + 1 < numGenerations THEN "select" ELSE "report"
    /\ UNCHANGED <<sync, teachers, rooms, timeSlots, classes, populationSize, tournamentSize,
                   mutationRate, numGenerations, heap, population, newGeneration, i,
                   parent1, parent2, child1, child2, idx, bestFitnessInGeneration,
                   bestFitnessAllGenerations, bestTimetable, evaluatedMax>>
    /\ output' = output

\* line 437: the score of the record is printed
Report ==
    /\ pc = "report"
    /\ pc' = "done"
    /\ output' = bestTimetable.FitnessScore
    /\ UNCHANGED <<sync, teachers, rooms, timeSlots, classes, populationSize, tournamentSize,
                   mutationRate, numGenerations, heap, population, newGeneration, i,
                   parent1, parent2, child1, child2, generation, idx,
                   bestFitnessInGeneration, bestFitnessAllGenerations, bestTimetable,
                   evaluatedMax>>

Next ==
    \/ SeedPopulation
    \/ EvaluateSeed
    \/ SelectParents
    \/ Crossover
    \/ MutateChild1
    \/ MutateChild2
    \/ AppendChildren
    \/ EvaluateIndividual
    \/ EndGeneration
    \/ Report

Spec == Init /\ [][Next]_vars

---------------------------------------------------------------------------
(* calculateFitness on its own: one chromosome of up to MaxGenes genes with *)
(* arbitrary bindings over the whole catalogs is evaluated once.            *)

\* most genes of the chromosome evaluated
MaxGenes == 3

InitFitness ==
    /\ teachers = AllTeachers
    /\ rooms = AllRooms
    /\ timeSlots = AllTimeSlots
    /\ \E K \in 1..MaxGenes :
          /\ K <= Len(AllClasses)
          /\ classes = SubSeq(AllClasses, 1, K)
          /\ \E a \in [1..K -> (1..Len(AllTeachers)) \X (1..Len(AllRooms))
                                \X (1..Len(AllTimeSlots))] :
                heap = [o \in 1..K |-> NewClass(AllClasses[o], a[o][1], a[o][2], a[o][3])]
          /\ population = << [k \in 1..K |-> k] >>
    /\ populationSize = 1
    /\ tournamentSize = 1
    /\ mutationRate = 0
    /\ numGenerations = 0
    /\ newGeneration = <<>>
    /\ i = 0
    /\ parent1 = NoChromosome
    /\ parent2 = NoChromosome
    /\ child1 = NoChromosome
    /\ child2 = NoChromosome
    /\ generation = 0
    /\ idx = 0
    /\ bestFitnessInGeneration = LowestFitness
    /\ bestFitnessAllGenerations = LowestFitness
    /\ bestTimetable = [Timetable |-> NoChromosome, FitnessScore |-> 0]
    /\ sync = "unlocked"
    /\ evaluatedMax = LowestFitness
    /\ output = "none"
    /\ pc = "fitness"

\* one call of calculateFitness; output holds what it returned
EvaluateFitness ==
    /\ pc = "fitness"
    /\ output' = Fitness(population[1], heap)
    /\ pc' = "evaluated"
    /\ UNCHANGED <<sync, teachers, rooms, timeSlots, classes, populationSize, tournamentSize,
                   mutationRate, numGenerations, heap, population, newGeneration, i,
                   parent1, parent2, child1, child2, generation, idx,
                   bestFitnessInGeneration, bestFitnessAllGenerations, bestTimetable,
                   evaluatedMax>>

\* one call of calculateFitness of src/main.go on the same chromosome
EvaluateFitnessMainGo ==
    /\ pc = "fitness"
    /\ output' = calculateFitnessMainGo(Genes(population[1], heap))
    /\ pc' = "evaluatedMainGo"
    /\ UNCHANGED <<sync, teachers, rooms, timeSlots, classes, populationSize, tournamentSize,
                   mutationRate, numGenerations, heap, population, newGeneration, i,
                   parent1, parent2, child1, child2, generation, idx,
                   bestFitnessInGeneration, bestFitnessAllGenerations, bestTimetable,
                   evaluatedMax>>

NextFitness ==
    \/ EvaluateFitness
    \/ EvaluateFitnessMainGo

SpecFitness == InitFitness /\ [][NextFitness]_vars

---------------------------------------------------------------------------
(* The evaluation of one generation, statement by statement (lines 411-437): *)
(* the commit of lines 422-425 takes the lock, writes the two fields of the *)
(* record and releases the lock.  The generation is any population of up to *)
(* MaxScanned chromosomes over two teachers, one room and two time slots.   *)

\* most individuals of the scanned generation
MaxScanned == 2

InitRecord ==
    /\ teachers = AllTeachers
    /\ rooms = SubSeq(AllRooms, 1, 1)
    /\ timeSlots = SubSeq(AllTimeSlots, 1, 2)
    /\ classes = SubSeq(AllClasses, 1, 2)
    /\ populationSize \in 1..MaxScanned
    /\ \E a \in [1..(populationSize * Len(classes)) ->
                    (1..Len(teachers)) \X (1..Len(rooms)) \X (1..Len(timeSlots))] :
          heap = [o \in 1..(populationSize * Len(classes)) |->
                    NewClass(classes[((o - 1) % Len(classes)) + 1], a[o][1], a[o][2], a[o][3])]
    /\ population = [c \in 1..populationSize |->
                       [k \in 1..Len(classes) |-> (c - 1) * Len(classes) + k]]
    /\ tournamentSize = 1
    /\ mutationRate = 0
    /\ numGenerations = 1
    /\ newGeneration = <<>>
    /\ i = 0
    /\ parent1 = NoChromosome
    /\ parent2 = NoChromosome
    /\ child1 = NoChromosome
    /\ child2 = NoChromosome
    /\ generation = 0
    /\ idx = 0
    /\ bestFitnessInGeneration = LowestFitness
    /\ bestFitnessAllGenerations = LowestFitness
    /\ bestTimetable = [Timetable |-> NoChromosome, FitnessScore |-> 0]
    /\ sync = "unlocked"
    /\ evaluatedMax = LowestFitness
    /\ output = "none"
    /\ pc = "scan"

\* mutant: the lock is released before the score is written
CommitSteps_UnlockEarly == <<"lock", "writeTimetable", "unlock", "writeScore">>

\* lines 422-425, in program order
CommitSteps == <<"lock", "writeTimetable", "writeScore", "unlock">>

\* the position after a statement of the commit; "zero" is the test of line 426
AfterCommitStep(step) ==
    LET k == CHOOSE n \in DOMAIN CommitSteps : CommitSteps[n] = step
    IN  IF k < Len(CommitSteps) THEN CommitSteps[k + 1] ELSE "zero"

\* lines 411-420: the fitness of the next individual is computed and compared
CompareIndividual ==
    /\ pc = "scan"
    /\ idx < Len(population)
    /\ LET currentFitness == Fitness(population[idx + 1], heap)
           commit == ImprovesGeneration(currentFitness) /\ ImprovesAllGenerations(currentFitness)
       IN  /\ evaluatedMax' = Max(evaluatedMax, currentFitness)
           /\ bestFitnessInGeneration' =
                 IF ImprovesGeneration(currentFitness) THEN currentFitness
                 ELSE bestFitnessInGeneration
           /\ bestFitnessAllGenerations' =
                 IF commit THEN currentFitness ELSE bestFitnessAllGenerations
           /\ IF commit
              THEN /\ pc' = CommitSteps[1]
                   /\ idx' = idx
              ELSE /\ idx' = idx + 1
                   /\ pc' = IF idx + 1 < Len(population) THEN "scan" ELSE "check"
    /\ UNCHANGED <<sync, teachers, rooms, timeSlots, classes, populationSize, tournamentSize,
                   mutationRate, numGenerations, heap, population, newGeneration, i,
                   parent1, parent2, child1, child2, generation, bestTimetable, output>>

\* line 422: bestTimetable.sync.Lock() returns once the mutex is free
Lock ==
    /\ pc = "lock"
    /\ sync = "unlocked"
    /\ sync' = "locked"
    /\ pc' = AfterCommitStep("lock")
    /\ UNCHANGED <<teachers, rooms, timeSlots, classes, populationSize, tournamentSize,
                   mutationRate, numGenerations, heap, population, newGeneration, i,
                   parent1, parent2, child1, child2, generation, idx,
                   bestFitnessInGeneration, bestFitnessAllGenerations, bestTimetable,
                   evaluatedMax, output>>

\* line 423: bestTimetable.Timetable = timetable
WriteTimetable ==
    /\ pc = "writeTimetable"
    /\ bestTimetable' = [bestTimetable EXCEPT !.Timetable = population[idx + 1]]
    /\ pc' = AfterCommitStep("writeTimetable")
    /\ UNCHANGED <<sync, teachers, rooms, timeSlots, classes, populationSize, tournamentSize,
                   mutationRate, numGenerations, heap, population, newGeneration, i,
                   parent1, parent2, child1, child2, generation, idx,
                   bestFitnessInGeneration, bestFitnessAllGenerations,
                   evaluatedMax, output>>

\* line 424: bestTimetable.FitnessScore = currentFitness
WriteScore ==
    /\ pc = "writeScore"
    /\ bestTimetable' = [bestTimetable EXCEPT !.FitnessScore = Fitness(population[idx + 1], heap)]
    /\ pc' = AfterCommitStep("writeScore")
    /\ UNCHANGED <<sync, teachers, rooms, timeSlots, classes, populationSize, tournamentSize,
                   mutationRate, numGenerations, heap, population, newGeneration, i,
                   parent1, parent2, child1, child2, generation, idx,
                   bestFitnessInGeneration, bestFitnessAllGenerations,
                   evaluatedMax, output>>

\* line 425: bestTimetable.sync.Unlock()
Unlock ==
    /\ pc = "unlock"
    /\ sync' = "unlocked"
    /\ pc' = AfterCommitStep("unlock")
    /\ UNCHANGED <<teachers, rooms, timeSlots, classes, populationSize, tournamentSize,
                   mutationRate, numGenerations, heap, population, newGeneration, i,
                   parent1, parent2, child1, child2, generation, idx,
                   bestFitnessInGeneration, bestFitnessAllGenerations, bestTimetable,
                   evaluatedMax, output>>

\* lines 426-428: a committed zero ends the scan, anything else continues it
BreakOnZero ==
    /\ pc = "zero"
    /\ IF Fitness(population[idx + 1], heap) = 0
       THEN /\ pc' = "check"
            /\ idx' = idx
       ELSE /\ idx' = idx + 1
            /\ pc' = IF idx + 1 < Len(population) THEN "scan" ELSE "check"
    /\ UNCHANGED <<sync, teachers, rooms, timeSlots, classes, populationSize, tournamentSize,
                   mutationRate, numGenerations, heap, population, newGeneration, i,
                   parent1, parent2, child1, child2, generation,
                   bestFitnessInGeneration, bestFitnessAllGenerations, bestTimetable,
                   evaluatedMax, output>>

NextRecord ==
    \/ CompareIndividual
    \/ Lock
    \/ WriteTimetable
    \/ WriteScore
    \/ Unlock
    \/ BreakOnZero
    \/ EndGeneration
    \/ Report

SpecRecord == InitRecord /\ [][NextRecord]_vars

---------------------------------------------------------------------------
(* TournamentSelection on its own: one call on a population of chromosomes  *)
(* of MaxTournamentGenes genes that all share the teacher and the room; the *)
(* first m genes of a chromosome are in the second time slot, the others in *)
(* the first, so that fitness runs from -480 down to -1200 and below the    *)
(* initial bestFitness of the function.                                     *)

\* genes of a chromosome in the tournament
MaxTournamentGenes == 6

InitTournament ==
    /\ teachers = SubSeq(AllTeachers, 1, 1)
    /\ rooms = SubSeq(AllRooms, 1, 1)
    /\ timeSlots = SubSeq(AllTimeSlots, 1, 2)
    /\ classes = [k \in 1..MaxTournamentGenes |-> AllClasses[((k - 1) % Len(AllClasses)) + 1]]
    /\ populationSize \in 1..MaxPopulation
    /\ \E m \in [1..populationSize -> 0..MaxTournamentGenes] :
          heap = [o \in 1..(populationSize * MaxTournamentGenes) |->
                    LET c == ((o - 1) \div MaxTournamentGenes) + 1
                        k == ((o - 1) % MaxTournamentGenes) + 1
                    IN  NewClass(classes[k], 1, 1, IF k <= m[c] THEN 2 ELSE 1)]
    /\ population = [c \in 1..populationSize |->
                       [k \in 1..MaxTournamentGenes |-> (c - 1) * MaxTournamentGenes + k]]
    /\ tournamentSize \in 1..MaxTournament
    /\ mutationRate = 0
    /\ numGenerations = 1
    /\ newGeneration = <<>>
    /\ i = 0
    /\ parent1 = NoChromosome
    /\ parent2 = NoChromosome
    /\ child1 = NoChromosome
    /\ child2 = NoChromosome
    /\ generation = 0
    /\ idx = 0
    /\ bestFitnessInGeneration = LowestFitness
    /\ bestFitnessAllGenerations = LowestFitness
    /\ bestTimetable = [Timetable |-> NoChromosome, FitnessScore |-> 0]
    /\ sync = "unlocked"
    /\ evaluatedMax = LowestFitness
    /\ output = "none"
    /\ pc = "tournament"

\* line 167: population.Timetables[best]; an index outside the slice panics
\* and no chromosome is returned
Selected(pop, best) ==
    IF best \in 0..(Len(pop) - 1) THEN pop[best + 1] ELSE NoChromosome

\* line 175: parent1 := TournamentSelection(...); output keeps the indexes
\* rand.Intn returned during the call
SelectOne ==
    /\ pc = "tournament"
    /\ \E d \in TournamentDraws(Len(population)) :
          /\ parent1' = Selected(population, TournamentSelection(population, heap, d))
          /\ evaluatedMax' = DrawnMax(population, heap, d, evaluatedMax)
          /\ output' = d
    /\ pc' = "selected"
    /\ UNCHANGED <<sync, teachers, rooms, timeSlots, classes, populationSize, tournamentSize,
                   mutationRate, numGenerations, heap, population, newGeneration, i,
                   parent2, child1, child2, generation, idx, bestFitnessInGeneration,
                   bestFitnessAllGenerations, bestTimetable>>

NextTournament == SelectOne

SpecTournament == InitTournament /\ [][NextTournament]_vars

---------------------------------------------------------------------------
(* mutate on its own: one call (line 182) on a chromosome of up to          *)
(* MaxMutated genes with arbitrary bindings over two teachers, two rooms    *)
(* and two time slots, at every mutation rate of the model.                 *)

\* most genes of the mutated chromosome
MaxMutated == 2

InitMutate ==
    /\ teachers = AllTeachers
    /\ rooms = AllRooms
    /\ timeSlots = SubSeq(AllTimeSlots, 1, 2)
    /\ \E K \in 1..MaxMutated :
          /\ K <= Len(AllClasses)
          /\ classes = SubSeq(AllClasses, 1, K)
          /\ \E a \in [1..K -> (1..Len(teachers)) \X (1..Len(rooms)) \X (1..Len(timeSlots))] :
                heap = [o \in 1..K |-> NewClass(AllClasses[o], a[o][1], a[o][2], a[o][3])]
          /\ population = << [k \in 1..K |-> k] >>
          /\ parent1 = [k \in 1..K |-> k]
          /\ parent2 = [k \in 1..K |-> k]
          /\ child1 = [k \in 1..K |-> k]
          /\ child2 = [k \in 1..K |-> k]
    /\ populationSize = 1
    /\ tournamentSize = 1
    /\ mutationRate \in 0..RateUnits
    /\ numGenerations = 1
    /\ newGeneration = <<>>
    /\ i = 0
    /\ generation = 0
    /\ idx = 0
    /\ bestFitnessInGeneration = LowestFitness
    /\ bestFitnessAllGenerations = LowestFitness
    /\ bestTimetable = [Timetable |-> NoChromosome, FitnessScore |-> 0]
    /\ sync = "unlocked"
    /\ evaluatedMax = LowestFitness
    /\ output = "none"
    /\ pc = "mutate1"

NextMutate == MutateChild1

SpecMutate == InitMutate /\ [][NextMutate]_vars

---------------------------------------------------------------------------
(* The driver started with a configuration outside the documented ranges:   *)
(* an empty catalog, a tournament size of 0 or a mutation rate below 0 or   *)
(* above 1.  main validates nothing (lines 369-405), so the run proceeds    *)
(* until it ends or a library call panics.  Population sizes below 1 are    *)
(* not part of this specification.                                          *)

\* largest population size and generation budget of these runs
MaxUnchecked == 2

UncheckedConfigurations ==
    { [catalog |-> Catalog(1, 1, 2, 2), tournamentSize |-> 1, mutationRate |-> 0 - 1],
      [catalog |-> Catalog(1, 1, 2, 2), tournamentSize |-> 1, mutationRate |-> RateUnits + 1],
      [catalog |-> Catalog(1, 1, 2, 2), tournamentSize |-> 0, mutationRate |-> 1],
      [catalog |-> Catalog(0, 1, 1, 1), tournamentSize |-> 1, mutationRate |-> 1],
      [catalog |-> Catalog(1, 0, 1, 1), tournamentSize |-> 1, mutationRate |-> 1],
      [catalog |-> Catalog(1, 1, 0, 1), tournamentSize |-> 1, mutationRate |-> 1],
      [catalog |-> Catalog(1, 1, 1, 0), tournamentSize |-> 1, mutationRate |-> 1] }

InitUnchecked ==
    /\ \E c \in UncheckedConfigurations :
          /\ teachers = c.catalog[1]
          /\ rooms = c.catalog[2]
          /\ timeSlots = c.catalog[3]
          /\ classes = c.catalog[4]
          /\ tournamentSize = c.tournamentSize
          /\ mutationRate = c.mutationRate
    /\ populationSize \in 1..MaxUnchecked
    /\ numGenerations \in 0..MaxUnchecked
    /\ heap = <<>>
    /\ population = <<>>
    /\ newGeneration = <<>>
    /\ i = 0
    /\ parent1 = NoChromosome
    /\ parent2 = NoChromosome
    /\ child1 = NoChromosome
    /\ child2 = NoChromosome
    /\ generation = 0
    /\ idx = 0
    /\ bestFitnessInGeneration = LowestFitness
    /\ bestFitnessAllGenerations = LowestFitness
    /\ bestTimetable = [Timetable |-> NoChromosome, FitnessScore |-> 0]
    /\ sync = "unlocked"
    /\ evaluatedMax = LowestFitness
    /\ output = "none"
    /\ pc = "seed"

\* the process ends with a runtime panic: nothing more is written or printed
Panics ==
    /\ pc' = "panic"
    /\ UNCHANGED <<sync, teachers, rooms, timeSlots, classes, populationSize, tournamentSize,
                   mutationRate, numGenerations, heap, population, newGeneration, i,
                   parent1, parent2, child1, child2, generation, idx,
                   bestFitnessInGeneration, bestFitnessAllGenerations, bestTimetable,
                   evaluatedMax, output>>

\* lines 99-101: rand.Intn(0) panics when a catalog is empty and there is a
\* class to bind
SeedPanics ==
    /\ pc = "seed"
    /\ populationSize >= 1
    /\ Len(classes) >= 1
    /\ (Len(teachers) = 0 \/ Len(rooms) = 0 \/ Len(timeSlots) = 0)
    /\ Panics

\* lines 159 and 167: with no round played best is still -1 and
\* population.Timetables[-1] panics
SelectPanics ==
    /\ pc = "select"
    /\ tournamentSize < 1
    /\ Panics

\* lines 175-176 when at least one round is played
SelectPlayed ==
    /\ tournamentSize >= 1
    /\ SelectParents

\* line 196: rand.Intn(0) panics when the parents have no genes
CrossoverPanics ==
    /\ pc = "crossover"
    /\ Len(parent1) = 0
    /\ Panics

NextUnchecked ==
    \/ SeedPopulation
    \/ SeedPanics
    \/ EvaluateSeed
    \/ SelectPlayed
    \/ SelectPanics
    \/ Crossover
    \/ CrossoverPanics
    \/ MutateChild1
    \/ MutateChild2
    \/ AppendChildren
    \/ EvaluateIndividual
    \/ EndGeneration
    \/ Report

SpecUnchecked == InitUnchecked /\ [][NextUnchecked]_vars

---------------------------------------------------------------------------
(* timeSlotsOverlap on its own: two TimeSlot values with any weekday and    *)
(* any Start and End up to MaxTime, a slot whose End is not after its Start *)
(* included (nothing in the program checks a TimeSlot literal).             *)

\* latest instant of a Start or an End
MaxTime == 3

SlotValues ==
    [Day : {Monday, Tuesday}, Start : 0..MaxTime, End : 0..MaxTime]

InitOverlap ==
    /\ teachers = SubSeq(AllTeachers, 1, 1)
    /\ rooms = SubSeq(AllRooms, 1, 1)
    /\ \E slot1, slot2 \in SlotValues : timeSlots = <<slot1, slot2>>
    /\ classes = SubSeq(AllClasses, 1, 1)
    /\ populationSize = 1
    /\ tournamentSize = 1
    /\ mutationRate = 0
    /\ numGenerations = 0
    /\ heap = <<>>
    /\ population = <<>>
    /\ newGeneration = <<>>
    /\ i = 0
    /\ parent1 = NoChromosome
    /\ parent2 = NoChromosome
    /\ child1 = NoChromosome
    /\ child2 = NoChromosome
    /\ generation = 0
    /\ idx = 0
    /\ bestFitnessInGeneration = LowestFitness
    /\ bestFitnessAllGenerations = LowestFitness
    /\ bestTimetable = [Timetable |-> NoChromosome, FitnessScore |-> 0]
    /\ sync = "unlocked"
    /\ evaluatedMax = LowestFitness
    /\ output = "none"
    /\ pc = "overlap"

\* the calls of timeSlotsOverlap on the two slots: in both orders, and on
\* the first slot and itself; output holds what they returned
CompareSlots ==
    /\ pc = "overlap"
    /\ output' = [forward |-> timeSlotsOverlap(timeSlots[1], timeSlots[2]),
                  backward |-> timeSlotsOverlap(timeSlots[2], timeSlots[1]),
                  self |-> timeSlotsOverlap(timeSlots[1], timeSlots[1])]
    /\ pc' = "overlapped"
    /\ UNCHANGED <<sync, teachers, rooms, timeSlots, classes, populationSize, tournamentSize,
                   mutationRate, numGenerations, heap, population, newGeneration, i,
                   parent1, parent2, child1, child2, generation, idx,
                   bestFitnessInGeneration, bestFitnessAllGenerations, bestTimetable,
                   evaluatedMax>>

NextOverlap == CompareSlots

SpecOverlap == InitOverlap /\ [][NextOverlap]_vars

---------------------------------------------------------------------------
(* The driver on the smallest catalogs, in the latest variant and in the    *)
(* variant src/unnamed/part_000.  The main of part_000 evaluates the seeded *)
(* population before its generation loop and returns at the first seeded    *)
(* timetable that scores 0 (lines 443-451); its calculateFitness is the one *)
(* of src/main.go.  Its generation loop is not followed here.               *)

\* one class, and two classes that must share teacher, room and time slot
ScenarioCatalogs == { Catalog(1, 1, 1, 1), Catalog(1, 1, 1, 2) }

InitScenario ==
    /\ \E c \in ScenarioCatalogs :
          /\ teachers = c[1]
          /\ rooms = c[2]
          /\ timeSlots = c[3]
          /\ classes = c[4]
    /\ populationSize \in 1..MaxPopulation
    /\ populationSize * Len(classes) <= MaxObjects
    /\ tournamentSize \in 1..MaxTournament
    /\ mutationRate \in 0..RateUnits
    /\ numGenerations \in 0..MaxGenerations
    /\ heap = <<>>
    /\ population = <<>>
    /\ newGeneration = <<>>
    /\ i = 0
    /\ parent1 = NoChromosome
    /\ parent2 = NoChromosome
    /\ child1 = NoChromosome
    /\ child2 = NoChromosome
    /\ generation = 0
    /\ idx = 0
    /\ bestFitnessInGeneration = LowestFitness
    /\ bestFitnessAllGenerations = LowestFitness
    /\ bestTimetable = [Timetable |-> NoChromosome, FitnessScore |-> 0]
    /\ sync = "unlocked"
    /\ evaluatedMax = LowestFitness
    /\ output = "none"
    /\ pc \in {"seed", "seedPart000"}

\* part_000 lines 438-441: the population is seeded as in the latest variant
SeedPopulationPart000 ==
    /\ pc = "seedPart000"
    /\ LET K == Len(classes)
           N == populationSize
       IN  /\ \E a \in [1..(N * K) -> (1..Len(teachers)) \X (1..Len(rooms)) \X (1..Len(timeSlots))] :
                 heap' = [o \in 1..(N * K) |->
                            NewClass(classes[((o - 1) % K) + 1], a[o][1], a[o][2], a[o][3])]
           /\ population' = [c \in 1..N |-> [k \in 1..K |-> (c - 1) * K + k]]
    /\ pc' = "evalseedPart000"
    /\ UNCHANGED <<sync, teachers, rooms, timeSlots, classes, populationSize, tournamentSize,
                   mutationRate, numGenerations, newGeneration, i, parent1, parent2,
                   child1, child2, generation, idx, bestFitnessInGeneration,
                   bestFitnessAllGenerations, bestTimetable, evaluatedMax, output>>

\* position of the first timetable of pop that scores 0, or 0 when none does
FirstValid(pop, h) ==
    LET valid == { k \in DOMAIN pop : calculateFitnessMainGo(Genes(pop[k], h)) = 0 }
    IN  IF valid = {} THEN 0 ELSE CHOOSE k \in valid : \A j \in valid : k <= j

\* part_000 lines 443-451: the seeded timetables are evaluated in order; at
\* the first score of 0 main prints "Timetable is valid!" and returns,
\* otherwise it goes on to its generation loop; idx is the loop position
EvaluateSeedPart000 ==
    /\ pc = "evalseedPart000"
    /\ LET k == FirstValid(population, heap)
       IN  IF k > 0
           THEN /\ pc' = "valid"
                /\ idx' = k - 1
                /\ output' = "Timetable is valid!"
           ELSE /\ pc' = "loopPart000"
                /\ idx' = Len(population)
                /\ output' = output
    /\ UNCHANGED <<sync, teachers, rooms, timeSlots, classes, populationSize, tournamentSize,
                   mutationRate, numGenerations, heap, population, newGeneration, i,
                   parent1, parent2, child1, child2, generation,
                   bestFitnessInGeneration, bestFitnessAllGenerations, bestTimetable,
                   evaluatedMax>>

NextScenario ==
    \/ Next
    \/ SeedPopulationPart000
    \/ EvaluateSeedPart000

SpecScenario == InitScenario /\ [][NextScenario]_vars

---------------------------------------------------------------------------
(* One call of CreateNewGeneration (lines 171-192) that makes up to         *)
(* MaxPairs pairs of children, on any seeded population of one-gene         *)
(* timetables over two teachers, one room and one time slot.                *)

\* most passes of the loop of line 174
MaxPairs == 2

InitGeneration ==
    /\ teachers = AllTeachers
    /\ rooms = SubSeq(AllRooms, 1, 1)
    /\ timeSlots = SubSeq(AllTimeSlots, 1, 1)
    /\ classes = SubSeq(AllClasses, 1, 1)
    /\ populationSize \in 1..(2 * MaxPairs)
    /\ tournamentSize \in 1..MaxTournament
    /\ mutationRate \in 0..RateUnits
    /\ numGenerations = 1
    /\ \E a \in [1..populationSize -> (1..Len(teachers)) \X (1..Len(rooms))
                                        \X (1..Len(timeSlots))] :
          heap = [o \in 1..populationSize |-> NewClass(classes[1], a[o][1], a[o][2], a[o][3])]
    /\ population = [c \in 1..populationSize |-> <<c>>]
    /\ newGeneration = <<>>
    /\ i = 0
    /\ parent1 = NoChromosome
    /\ parent2 = NoChromosome
    /\ child1 = NoChromosome
    /\ child2 = NoChromosome
    /\ generation = 0
    /\ idx = 0
    /\ bestFitnessInGeneration = LowestFitness
    /\ bestFitnessAllGenerations = LowestFitness
    /\ bestTimetable = [Timetable |-> NoChromosome, FitnessScore |-> 0]
    /\ sync = "unlocked"
    /\ evaluatedMax = LowestFitness
    /\ output = "none"
    /\ pc = "select"

NextGeneration ==
    \/ SelectParents
    \/ Crossover
    \/ MutateChild1
    \/ MutateChild2
    \/ AppendChildren

SpecGeneration == InitGeneration /\ [][NextGeneration]_vars

---------------------------------------------------------------------------
(* The best fitness of one generation in the three variants of main: the    *)
(* scan of the latest variant (part_001 lines 407-435), the scan of         *)
(* src/unnamed/part_000 (lines 467-480) and the single evaluation of        *)
(* src/main.go (lines 321-322).  The generation is any population of up to  *)
(* MaxScanned chromosomes; part_000 and main.go score it with the           *)
(* calculateFitness of src/main.go.                                         *)

InitBest ==
    /\ teachers = AllTeachers
    /\ rooms = SubSeq(AllRooms, 1, 1)
    /\ timeSlots = SubSeq(AllTimeSlots, 1, 2)
    /\ classes = SubSeq(AllClasses, 1, 2)
    /\ populationSize \in 1..MaxScanned
    /\ \E a \in [1..(populationSize * Len(classes)) ->
                    (1..Len(teachers)) \X (1..Len(rooms)) \X (1..Len(timeSlots))] :
          heap = [o \in 1..(populationSize * Len(classes)) |->
                    NewClass(classes[((o - 1) % Len(classes)) + 1], a[o][1], a[o][2], a[o][3])]
    /\ population = [c \in 1..populationSize |->
                       [k \in 1..Len(classes) |-> (c - 1) * Len(classes) + k]]
    /\ tournamentSize = 1
    /\ mutationRate = 0
    /\ numGenerations = 1
    /\ newGeneration = <<>>
    /\ i = 0
    /\ parent1 = NoChromosome
    /\ parent2 = NoChromosome
    /\ child1 = NoChromosome
    /\ child2 = NoChromosome
    /\ generation = 0
    /\ idx = 0
    /\ bestFitnessInGeneration = LowestFitness
    /\ bestFitnessAllGenerations = LowestFitness
    /\ bestTimetable = [Timetable |-> NoChromosome, FitnessScore |-> 0]
    /\ sync = "unlocked"
    /\ evaluatedMax = LowestFitness
    /\ output = "none"
    /\ pc \in {"scan", "scanPart000", "bestMainGo"}

\* part_000 lines 470-477: one iteration of the range loop over the new
\* generation
EvaluateIndividualPart000 ==
    /\ pc = "scanPart000"
    /\ idx < Len(population)
    /\ LET currentFitness == calculateFitnessMainGo(Genes(population[idx + 1], heap))
       IN  bestFitnessInGeneration' =
               IF currentFitness > bestFitnessInGeneration THEN currentFitness
               ELSE bestFitnessInGeneration
    /\ idx' = idx + 1
    /\ pc' = IF idx + 1 < Len(population) THEN "scanPart000" ELSE "printPart000"
    /\ UNCHANGED <<sync, teachers, rooms, timeSlots, classes, populationSize, tournamentSize,
                   mutationRate, numGenerations, heap, population, newGeneration, i,
                   parent1, parent2, child1, child2, generation,
                   bestFitnessAllGenerations, bestTimetable, evaluatedMax, output>>

\* part_000 line 480: Printf("Generation %d: Best Fitness = %d\n", ...)
PrintBestPart000 ==
    /\ pc = "printPart000"
    /\ pc' = "reportedPart000"
    /\ output' = bestFitnessInGeneration
    /\ UNCHANGED <<sync, teachers, rooms, timeSlots, classes, populationSize, tournamentSize,
                   mutationRate, numGenerations, heap, population, newGeneration, i,
                   parent1, parent2, child1, child2, generation, idx,
                   bestFitnessInGeneration, bestFitnessAllGenerations, bestTimetable,
                   evaluatedMax>>

\* main.go lines 321-322: bestFitness := calculateFitness(population.
\* Timetables[1], classes), printed as the generation's "Best Fitness"; the
\* index expression panics on a population of one
PrintBestMainGo ==
    /\ pc = "bestMainGo"
    /\ IF Len(population) < 2
       THEN /\ pc' = "panic"
            /\ output' = output
       ELSE /\ pc' = "reportedMainGo"
            /\ output' = calculateFitnessMainGo(Genes(population[2], heap))
    /\ UNCHANGED <<sync, teachers, rooms, timeSlots, classes, populationSize, tournamentSize,
                   mutationRate, numGenerations, heap, population, newGeneration, i,
                   parent1, parent2, child1, child2, generation, idx,
                   bestFitnessInGeneration, bestFitnessAllGenerations, bestTimetable,
                   evaluatedMax>>

NextBest ==
    \/ EvaluateIndividual
    \/ EndGeneration
    \/ Report
    \/ EvaluateIndividualPart000
    \/ PrintBestPart000
    \/ PrintBestMainGo

SpecBest == InitBest /\ [][NextBest]_vars

---------------------------------------------------------------------------
(* Properties of the driver *)

Committed == bestTimetable.Timetable # NoChromosome

\* the catalog of the shared-teacher scenario: two classes, one teacher, one slot
SharedTeacherCatalog == Len(classes) = 2 /\ Len(teachers) = 1 /\ Len(timeSlots) = 1

\* the fitness the scan is about to compute
ScannedFitness == Fitness(population[idx + 1], heap)

\* C1: the score stored in the Best-Found Record equals the fitness of the
\* chromosome stored with it, in every state after a commit (no later step
\* changes the recorded chromosome's bindings).
C1_RecordScoreIsFitness ==
    Committed => bestTimetable.FitnessScore = Fitness(bestTimetable.Timetable, heap)

\* C2: mutating a child made by crossover leaves the teacher, room and time
\* slot of every gene of both parents as they were.
C2_MutationKeepsParents_Step ==
    pc \in {"mutate1", "mutate2"} =>
      /\ \A k \in DOMAIN parent1 : heap'[parent1[k]] = heap[parent1[k]]
      /\ \A k \in DOMAIN parent2 : heap'[parent2[k]] = heap[parent2[k]]

C2_MutationKeepsParents == [][C2_MutationKeepsParents_Step]_vars

\* C3: when the driver has concluded, the record's score is at least every
\* fitness computed during the run, the seeded population's included.
C3_RecordIsHighestEvaluated ==
    pc = "done" => bestTimetable.FitnessScore >= evaluatedMax

\* C4: with two classes, one teacher and one time slot every chromosome
\* scores at most -1 * conflict weight, and the score the driver reports is
\* never 0, whatever the run parameters (population size >= 2, budget 0
\* included).
C4_SharedTeacherNeverZero ==
    (SharedTeacherCatalog /\ populationSize >= 2) =>
        /\ \A c \in DOMAIN population :
              Fitness(population[c], heap) <= -1 * TeacherConflictPenalty
        /\ pc = "done" => output # 0

\* C5: when the scan of a generation computes score 0 for an individual, that
\* individual is committed with score 0 and the scan ends there (idx is not
\* advanced); the generation loop then ends without producing a further
\* generation, and nothing is evaluated or committed afterwards.
C5_StopsAtFirstZero_Step ==
    /\ (pc = "scan" /\ ScannedFitness = 0) =>
          /\ pc' = "check"
          /\ idx' = idx
          /\ bestFitnessInGeneration' = 0
          /\ bestTimetable' = [Timetable |-> population[idx + 1], FitnessScore |-> 0]
    /\ (pc = "check" /\ bestFitnessInGeneration = 0) =>
          /\ pc' = "report"
          /\ generation' = generation
    /\ pc \in {"report", "done"} =>
          /\ pc' \in {"report", "done"}
          /\ bestTimetable' = bestTimetable
          /\ population' = population

C5_StopsAtFirstZero == [][C5_StopsAtFirstZero_Step]_vars

\* C5 witness: a zero was found while individuals of the generation and
\* generations of the budget were still left.
C5_Witness ==
    /\ pc = "check"
    /\ bestFitnessInGeneration = 0
    /\ bestTimetable.FitnessScore = 0
    /\ idx + 1 < Len(population)
    /\ generation + 1 < numGenerations

\* C6: the best-ever score never decreases; a step changes the record exactly
\* when the scan evaluates an individual whose score is strictly above the
\* best-ever score; the record then holds that individual and its score, and
\* the score equals the new best-ever score.
C6_CommitOnStrictImprovement_Step ==
    /\ bestFitnessAllGenerations' >= bestFitnessAllGenerations
    /\ (bestTimetable' # bestTimetable) <=>
          (pc = "scan" /\ ScannedFitness > bestFitnessAllGenerations)
    /\ (bestTimetable' # bestTimetable) =>
          /\ bestTimetable'.Timetable = population[idx + 1]
          /\ bestTimetable'.FitnessScore = ScannedFitness
          /\ bestTimetable'.FitnessScore = bestFitnessAllGenerations'

C6_CommitOnStrictImprovement == [][C6_CommitOnStrictImprovement_Step]_vars

\* C6 witness: a later generation was scanned to its end, its best equalled
\* the best-ever score, and the record still holds a chromosome of an earlier
\* generation.
C6_Witness ==
    /\ pc = "check"
    /\ generation >= 1
    /\ idx = Len(population)
    /\ bestFitnessInGeneration = bestFitnessAllGenerations
    /\ bestTimetable.FitnessScore = bestFitnessAllGenerations
    /\ \A c \in DOMAIN population : population[c] # bestTimetable.Timetable

\* C7: the seeded population and every generation CreateNewGeneration
\* returns have exactly populationSize members, and the append that fills the
\* last place of an odd-sized generation adds the first child only.
C7_GenerationHasPopulationSize_Step ==
    /\ pc' \in {"evalseed", "scan"} => Len(population') = populationSize
    /\ (pc = "append" /\ Len(newGeneration) + 1 = populationSize) =>
          /\ pc' = "scan"
          /\ population' = Append(newGeneration, child1)

C7_GenerationHasPopulationSize == [][C7_GenerationHasPopulationSize_Step]_vars

\* C7 witness: an odd-sized generation of more than one pair is complete.
C7_Witness ==
    /\ pc = "scan"
    /\ populationSize = 3
    /\ Len(population) = 3

\* C8: at every position one of the two children carries parent1's gene and
\* the other carries parent2's gene.
C8_ChildrenComplementary_Step ==
    pc = "crossover" =>
      \A k \in DOMAIN parent1 :
          \/ child1'[k] = parent1[k] /\ child2'[k] = parent2[k]
          \/ child1'[k] = parent2[k] /\ child2'[k] = parent1[k]

C8_ChildrenComplementary == [][C8_ChildrenComplementary_Step]_vars

\* child is a and b joined at one cut c, 0 <= c < n
OnePointOf(child, a, b) ==
    /\ Len(child) = Len(a)
    /\ \E c \in 0..(Len(a) - 1) :
          \A k \in 1..Len(a) : child[k] = (IF k - 1 < c THEN a[k] ELSE b[k])

\* C9: each child returned by crossover(A, B) has the parents' length and is
\* A before some cut c in [0, n) and B from c on; its last gene is B's, and
\* cut 0 gives B position by position.
C9_CrossoverIsOnePoint_Step ==
    pc = "crossover" =>
      /\ Len(parent1) = Len(parent2)
      /\ OnePointOf(child1', parent1, parent2)
      /\ OnePointOf(child2', parent2, parent1)
      /\ child1'[Len(parent1)] = parent2[Len(parent1)]
      /\ child2'[Len(parent1)] = parent1[Len(parent1)]
      /\ crossover(parent1, parent2, 0) = parent2

C9_CrossoverIsOnePoint == [][C9_CrossoverIsOnePoint_Step]_vars

\* C9 witness: a child that takes its first gene from one parent and its last
\* from the other, the parents having no gene in common.
C9_Witness ==
    /\ pc = "mutate1"
    /\ Len(parent1) = 2
    /\ \A k \in DOMAIN parent1 : parent1[k] # parent2[k]
    /\ child1 = <<parent1[1], parent2[2]>>

---------------------------------------------------------------------------
(* Properties of calculateFitness *)

InRange(x, s) == \E k \in DOMAIN s : s[k] = x

\* two slots are on the same weekday and their [start, end) intervals meet
SlotsConflict(s1, s2) ==
    s1.Day = s2.Day /\ Max(s1.Start, s2.Start) < (IF s1.End <= s2.End THEN s1.End ELSE s2.End)

\* no conflicting pair and no per-gene defect
DefectFree(genes) ==
    /\ \A a, b \in DOMAIN genes :
          (a # b /\ SlotsConflict(timeSlots[genes[a].TimeSlot], timeSlots[genes[b].TimeSlot])) =>
              /\ genes[a].Teacher # genes[b].Teacher
              /\ genes[a].Room # genes[b].Room
    /\ \A a \in DOMAIN genes :
          /\ InRange(genes[a].Subject, teachers[genes[a].Teacher].Subjects)
          /\ genes[a].Capacity <= rooms[genes[a].Room].Capacity
          /\ InRange(timeSlots[genes[a].TimeSlot].Day, teachers[genes[a].Teacher].Available)

\* C10: calculateFitness returns exactly 0 for every chromosome without a
\* teacher or room conflict and without a qualification, capacity or
\* availability defect.
C10_DefectFreeScoresZero ==
    (pc = "evaluated" /\ DefectFree(Genes(population[1], heap))) => output = 0

\* C10 witness: a defect-free chromosome of two genes was evaluated.
C10_Witness ==
    /\ pc = "evaluated"
    /\ Len(population[1]) >= 2
    /\ DefectFree(Genes(population[1], heap))

\* unordered pairs of distinct genes whose slots conflict and that agree on field
ConflictingPairs(genes, field) ==
    { p \in (DOMAIN genes) \X (DOMAIN genes) :
        /\ p[1] < p[2]
        /\ SlotsConflict(timeSlots[genes[p[1]].TimeSlot], timeSlots[genes[p[2]].TimeSlot])
        /\ genes[p[1]][field] = genes[p[2]][field] }

Unqualified(genes) ==
    { a \in DOMAIN genes : ~InRange(genes[a].Subject, teachers[genes[a].Teacher].Subjects) }

OverCapacity(genes) ==
    { a \in DOMAIN genes : genes[a].Capacity > rooms[genes[a].Room].Capacity }

Unavailable(genes) ==
    { a \in DOMAIN genes :
        ~InRange(timeSlots[genes[a].TimeSlot].Day, teachers[genes[a].Teacher].Available) }

\* the penalty sum of a chromosome under the two conflict weights
PenaltySum(genes, teacherWeight, roomWeight) ==
    LET T == Cardinality(ConflictingPairs(genes, "Teacher"))
        R == Cardinality(ConflictingPairs(genes, "Room"))
        Q == Cardinality(Unqualified(genes))
        C == Cardinality(OverCapacity(genes))
        A == Cardinality(Unavailable(genes))
    IN  0 - (2 * teacherWeight * T + 2 * roomWeight * R + Q + C + A)

\* the weights the variants are said to take their one conflict weight from
ConflictWeights == 1..20

\* C11, as stated: calculateFitness equals -(2*W*T + 2*W*R + Q + C + A) with
\* one conflict weight W for both kinds of conflict, 20 in the latest
\* variant and some weight of the 1-20 range in the variant src/main.go.
C11_FitnessIsPenaltySum ==
    LET genes == Genes(population[1], heap)
    IN  /\ pc = "evaluated" =>
              output = PenaltySum(genes, TeacherConflictPenalty, TeacherConflictPenalty)
        /\ pc = "evaluatedMainGo" =>
              \E W \in ConflictWeights : output = PenaltySum(genes, W, W)

\* C11, amended: calculateFitness equals -(2*Wt*T + 2*Wr*R + Q + C + A) with
\* a weight Wt for a shared teacher and a weight Wr for a shared room:
\* 20 and 20 in the latest variant, 10 and 1 in the variant src/main.go.
C11_FitnessIsWeightedPenaltySum ==
    LET genes == Genes(population[1], heap)
    IN  /\ pc = "evaluated" =>
              output = PenaltySum(genes, TeacherConflictPenalty, RoomConflictPenalty)
        /\ pc = "evaluatedMainGo" =>
              output = PenaltySum(genes, MainGoTeacherConflictPenalty,
                                  MainGoRoomConflictPenalty)

\* C11 witness: an evaluated chromosome of three genes with a teacher
\* conflict, a room conflict and a defect of each kind.
C11_Witness ==
    /\ pc = "evaluatedMainGo"
    /\ LET genes == Genes(population[1], heap)
       IN  /\ Len(genes) = 3
           /\ Cardinality(ConflictingPairs(genes, "Teacher")) >= 1
           /\ Cardinality(ConflictingPairs(genes, "Room")) >= 1
           /\ Unqualified(genes) # {}
           /\ OverCapacity(genes) # {}
           /\ Unavailable(genes) # {}

\* C12: calculateFitness never returns a positive value, it returns a
\* negative one for every chromosome with a conflict or a per-gene defect,
\* and the score of a committed record is at most 0.
C12_FitnessNeverPositive ==
    /\ \A c \in DOMAIN population :
          LET genes == Genes(population[c], heap)
          IN  /\ calculateFitness(genes) <= 0
              /\ ~DefectFree(genes) => calculateFitness(genes) < 0
    /\ Committed => bestTimetable.FitnessScore <= 0

\* C12 witness: a generation was scanned that holds a chromosome with a
\* per-gene defect and no conflict, and the record has a negative score.
C12_Witness ==
    /\ pc = "check"
    /\ Committed
    /\ bestTimetable.FitnessScore < 0
    /\ \E c \in DOMAIN population :
          LET genes == Genes(population[c], heap)
          IN  /\ Unqualified(genes) # {}
              /\ ConflictingPairs(genes, "Teacher") = {}
              /\ ConflictingPairs(genes, "Room") = {}

---------------------------------------------------------------------------
(* Properties of the commit *)

\* the record holds the chromosome and the score of one and the same commit
PairedRecord ==
    \E c \in DOMAIN population :
        /\ bestTimetable.Timetable = population[c]
        /\ bestTimetable.FitnessScore = Fitness(population[c], heap)

\* C19: the record is written only while its lock is held, the lock is taken
\* only when it is free and every section that takes it releases it with
\* both fields written by the same commit; the final read happens with the
\* lock released and sees the chromosome and the score of the last commit.
C19_CommitUnderLock_Step ==
    /\ bestTimetable' # bestTimetable => (sync = "locked" /\ sync' = "locked")
    /\ sync' = "locked" => (sync = "locked" \/ pc = "lock")
    /\ (sync = "locked" /\ sync' = "unlocked") => PairedRecord'
    /\ (sync = "unlocked" /\ Committed) => PairedRecord
    /\ pc = "report" =>
          /\ sync = "unlocked"
          /\ Committed
          /\ output' = Fitness(bestTimetable.Timetable, heap)

---------------------------------------------------------------------------
(* Properties of TournamentSelection *)

\* the fitness of the individual drawn in round k
DrawnFitness(k) == Fitness(population[output[k] + 1], heap)

\* the first round whose individual has the highest fitness of all rounds
FirstBestRound ==
    CHOOSE k \in DOMAIN output :
        /\ \A j \in DOMAIN output : DrawnFitness(j) <= DrawnFitness(k)
        /\ \A j \in 1..(k - 1) : DrawnFitness(j) < DrawnFitness(k)

\* C13: TournamentSelection returns the chromosome at the first drawn index
\* whose fitness is the maximum over all drawn indexes, also when every
\* drawn fitness is below the initial bestFitness of -1000.
C13_FirstBestDrawWins ==
    pc = "selected" => parent1 = population[output[FirstBestRound] + 1]

\* C13 witness: every drawn fitness is below -1000 and the second round drew
\* another chromosome of the same fitness as the first, which was returned.
C13_Witness ==
    /\ pc = "selected"
    /\ Len(output) >= 2
    /\ \A k \in DOMAIN output : DrawnFitness(k) < TournamentFloor
    /\ output[1] # output[2]
    /\ DrawnFitness(1) = DrawnFitness(2)
    /\ parent1 = population[output[1] + 1]

---------------------------------------------------------------------------
(* Properties of mutate *)

\* the chromosome the mutate call of this step works on
Mutated == IF pc = "mutate1" THEN child1 ELSE child2

\* the bindings of a Class object that differ between heaps h1 and h2
ChangedBindings(o, h1, h2) ==
    { f \in {"Teacher", "Room", "TimeSlot"} : h1[o][f] # h2[o][f] }

\* C14: mutate returns a chromosome with the same genes in number and order,
\* each with the subject and the required capacity it had before.
C14_MutateKeepsSubjects_Step ==
    pc \in {"mutate1", "mutate2"} =>
        /\ child1' = child1
        /\ child2' = child2
        /\ DOMAIN heap' = DOMAIN heap
        /\ \A k \in DOMAIN Mutated :
              /\ heap'[Mutated[k]].Subject = heap[Mutated[k]].Subject
              /\ heap'[Mutated[k]].Capacity = heap[Mutated[k]].Capacity

C14_MutateKeepsSubjects == [][C14_MutateKeepsSubjects_Step]_vars

\* C14 witness: mutate has run at rate 1 on a chromosome of two genes and
\* left a binding different from the class's first choice.
C14_Witness ==
    /\ pc = "mutate2"
    /\ mutationRate = RateUnits
    /\ Len(child1) = 2
    /\ \E k \in DOMAIN child1 : heap[child1[k]].Teacher = 2 /\ heap[child1[k]].Room = 2

\* C16: one call of mutate changes at most one of the three bindings of each
\* gene of the chromosome, and every binding after the call is an entry of
\* its catalog.
C16_OneBindingPerGene_Step ==
    pc \in {"mutate1", "mutate2"} =>
        \A k \in DOMAIN Mutated :
            /\ Cardinality(ChangedBindings(Mutated[k], heap, heap')) <= 1
            /\ heap'[Mutated[k]].Teacher \in DOMAIN teachers
            /\ heap'[Mutated[k]].Room \in DOMAIN rooms
            /\ heap'[Mutated[k]].TimeSlot \in DOMAIN timeSlots

C16_OneBindingPerGene == [][C16_OneBindingPerGene_Step]_vars

\* C16 witness: mutate has run at a rate strictly between 0 and 1 on a
\* chromosome of two genes whose bindings now differ in all three fields.
C16_Witness ==
    /\ pc = "mutate2"
    /\ mutationRate \in 1..(RateUnits - 1)
    /\ Len(child1) = 2
    /\ heap[child1[1]].Teacher # heap[child1[2]].Teacher
    /\ heap[child1[1]].Room # heap[child1[2]].Room
    /\ heap[child1[1]].TimeSlot # heap[child1[2]].TimeSlot

---------------------------------------------------------------------------
(* Properties of the population *)

\* the teacher, room and time slot of a Class object
Triple(class) == <<class.Teacher, class.Room, class.TimeSlot>>

\* the object seeded as gene k of the s-th chromosome of the initial population
SeededGene(s, k) == (s - 1) * Len(classes) + k

\* C15: at mutation rate 0 no step after the seeding changes a binding of any
\* gene, and every gene at position k of every chromosome of the population
\* carries the triple of the position-k gene of a seeded chromosome.
C15_RateZeroKeepsBindings_Step ==
    mutationRate = 0 =>
        /\ pc # "seed" => heap' = heap
        /\ \A c \in DOMAIN population' : \A k \in DOMAIN population'[c] :
              \E s \in 1..populationSize :
                  /\ population'[c][k] = SeededGene(s, k)
                  /\ Triple(heap'[population'[c][k]]) = Triple(heap'[SeededGene(s, k)])

C15_RateZeroKeepsBindings == [][C15_RateZeroKeepsBindings_Step]_vars

\* C15 witness: at rate 0, a later generation holds a chromosome made of the
\* first gene of one seeded chromosome and the second gene of another.
C15_Witness ==
    /\ mutationRate = 0
    /\ pc = "scan"
    /\ generation >= 1
    /\ \E c \in DOMAIN population :
          /\ Len(population[c]) = 2
          /\ population[c][1] = SeededGene(1, 1)
          /\ population[c][2] = SeededGene(2, 2)

\* one gene per class, in the order of the classes, bound to catalog entries
WellFormed(chromosome) ==
    /\ Len(chromosome) = Len(classes)
    /\ \A k \in DOMAIN chromosome :
          /\ heap[chromosome[k]].Subject = classes[k].Subject
          /\ heap[chromosome[k]].Capacity = classes[k].Capacity
          /\ heap[chromosome[k]].Teacher \in DOMAIN teachers
          /\ heap[chromosome[k]].Room \in DOMAIN rooms
          /\ heap[chromosome[k]].TimeSlot \in DOMAIN timeSlots

\* C18: every chromosome of the population, of the generation being built
\* and every child has one gene per class of the catalog, the gene at
\* position k with the subject and capacity of class k and with teacher,
\* room and time slot from the catalogs.
C18_ChromosomesWellFormed ==
    /\ \A c \in DOMAIN population : WellFormed(population[c])
    /\ \A c \in DOMAIN newGeneration : WellFormed(newGeneration[c])
    /\ pc \in {"mutate1", "mutate2", "append"} => (WellFormed(child1) /\ WellFormed(child2))

\* C18 witness: the second generation of a run that mutates every gene is
\* about to be evaluated.
C18_Witness ==
    /\ pc = "scan"
    /\ generation >= 1
    /\ mutationRate = RateUnits
    /\ Len(classes) = 2
    /\ Len(population) >= 2

---------------------------------------------------------------------------
(* Properties of the configuration *)

\* a configuration outside the documented ranges
InvalidConfiguration ==
    \/ Len(teachers) = 0
    \/ Len(rooms) = 0
    \/ Len(timeSlots) = 0
    \/ Len(classes) = 0
    \/ populationSize <= 0
    \/ tournamentSize <= 0
    \/ mutationRate < 0
    \/ mutationRate > RateUnits

\* C17: a run with an invalid configuration is rejected before the search
\* starts: no population is seeded, no generation is produced and nothing
\* is reported.
C17_InvalidConfigurationRejected ==
    InvalidConfiguration =>
        /\ population = <<>>
        /\ newGeneration = <<>>
        /\ pc \notin {"scan", "check"}
        /\ output = "none"

---------------------------------------------------------------------------
(* Properties of the run as a whole *)

\* the three logical states of the driver
Seeded == pc \in {"seed", "evalseed"}
Evolving == pc \in {"select", "crossover", "mutate1", "mutate2", "append", "scan", "check"}
Concluded == pc \in {"report", "done"}

\* the logical states follow each other in order and the budget is respected
OrderedStates_Step ==
    /\ Seeded' => Seeded
    /\ Concluded => Concluded'
    /\ generation' <= numGenerations

OrderedStates == [][OrderedStates_Step]_vars

\* C20: the driver concludes after at most numGenerations generations, and a
\* run that ends without a generation's best of 0 concludes with a record
\* that holds a chromosome and a negative score, which is what it reports.
C20_ConcludesWithBestRecord ==
    /\ generation <= numGenerations
    /\ (pc = "done" /\ bestFitnessInGeneration # 0) =>
          /\ Committed
          /\ bestTimetable.FitnessScore < 0
          /\ output = bestTimetable.FitnessScore

---------------------------------------------------------------------------
(* Properties of timeSlotsOverlap *)

\* the instants of the half-open interval [Start, End) of a slot
Instants(slot) == { t \in 0..MaxTime : slot.Start <= t /\ t < slot.End }

\* same weekday and intersecting half-open intervals
Intersect(slot1, slot2) ==
    /\ slot1.Day = slot2.Day
    /\ Instants(slot1) \cap Instants(slot2) # {}

---------------------------------------------------------------------------
(* The scenario of one teacher, one room, one time slot and one class *)

\* the run has one teacher, one room, one time slot and one class
SingleChoice ==
    /\ Len(teachers) = 1
    /\ Len(rooms) = 1
    /\ Len(timeSlots) = 1
    /\ Len(classes) = 1

\* the only assignment of the class
OnlyAssignment == << NewClass(classes[1], 1, 1, 1) >>

\* every chromosome of the population is the only assignment and scores 0
AllValid ==
    \A c \in DOMAIN population :
        /\ Genes(population[c], heap) = OnlyAssignment
        /\ Fitness(population[c], heap) = 0
        /\ calculateFitnessMainGo(Genes(population[c], heap)) = 0

\* the record holds the only assignment with score 0, committed in the first
\* generation
RecordInFirstGeneration ==
    /\ generation = 0
    /\ bestFitnessInGeneration = 0
    /\ bestTimetable.FitnessScore = 0
    /\ Genes(bestTimetable.Timetable, heap) = OnlyAssignment

---------------------------------------------------------------------------
(* Ownership of the gene objects within one call of CreateNewGeneration *)

\* the call is in progress
InCreateNewGeneration == pc \in {"select", "crossover", "mutate1", "mutate2", "append"}

\* the Class objects two chromosomes both point to
SharedObjects(chromosome1, chromosome2) ==
    { chromosome1[k] : k \in DOMAIN chromosome1 } \cap { chromosome2[k] : k \in DOMAIN chromosome2 }

\* the input population followed by the children appended so far
Chromosomes == population \o newGeneration

C23_ChildrenOwnTheirGenes_Step ==
    InCreateNewGeneration =>
        /\ \A c \in DOMAIN newGeneration :
              Genes(newGeneration[c], heap') = Genes(newGeneration[c], heap)
        /\ i + 2 < populationSize =>
              \A c \in DOMAIN population :
                  Fitness(population[c], heap') = Fitness(population[c], heap)
        /\ \A a, b \in DOMAIN Chromosomes :
              a # b => SharedObjects(Chromosomes[a], Chromosomes[b]) = {}

\* C23: within one call of CreateNewGeneration no step changes the bindings
\* of a child that has been appended, no step that is followed by another
\* tournament of the call changes the fitness of a member of the input
\* population, and no two chromosomes of the input population and the new
\* generation share a gene object.
C23_ChildrenOwnTheirGenes == [][C23_ChildrenOwnTheirGenes_Step]_vars

---------------------------------------------------------------------------
(* The best fitness of a generation *)

\* the largest number of a non-empty finite set
Largest(S) == CHOOSE m \in S : \A x \in S : x <= m

\* the maximum of the fitness over the population, by the calculateFitness
\* of the latest variant and by the one of part_000 and main.go
GenerationBest == Largest({ Fitness(population[c], heap) : c \in DOMAIN population })

GenerationBestMainGo ==
    Largest({ calculateFitnessMainGo(Genes(population[c], heap)) : c \in DOMAIN population })

\* the latest variant and part_000 track and print the maximum
ScansTrackMaximum ==
    /\ pc = "check" => bestFitnessInGeneration = GenerationBest
    /\ pc = "reportedPart000" => output = GenerationBestMainGo

\* C24: in every variant of main, the value tracked and printed as the best
\* fitness of a generation is the maximum of the fitness over all members
\* of the generation's population.
C24_GenerationBestIsMaximum ==
    /\ pc = "check" => bestFitnessInGeneration = GenerationBest
    /\ pc = "reportedPart000" => output = GenerationBestMainGo
    /\ pc = "reportedMainGo" => output = GenerationBestMainGo


===========================================================================
